---- MODULE Spec2Model ----
(***************************************************************************)
(* Schema assembly of graphql-go-tools: ExecutableSchema.Make and          *)
(* registry.buildSchemaFromAST (src/schema.go), together with the type     *)
(* registry they drive (accessor, resolution loop), which is described in  *)
(* the specification sections 4.1 to 4.5.                                 *)
(*                                                                         *)
(* Input domain: a Document is a sequence of object-type declarations,     *)
(* directive definitions and at most one schema definition whose           *)
(* operation types name each operation at most once (well-formed SDL).     *)
(* Object types may be redeclared, may reference undeclared names, and may *)
(* reference each other in cycles.                                         *)
(***************************************************************************)
EXTENDS Integers, Sequences, FiniteSets, TLC

----------------------------------------------------------------------------
(* Program constants                                                       *)

DefaultRootQueryName == "Query"
DefaultRootMutationName == "Mutation"
DefaultRootSubscriptionName == "Subscription"

(* Bounds of the model                                                     *)

MaxTypeDecls == 2

----------------------------------------------------------------------------
(* Values                                                                  *)

Names == {DefaultRootQueryName, DefaultRootMutationName,
          DefaultRootSubscriptionName, "Foo"}
RefNames == {DefaultRootQueryName, "Foo"}
DirectiveNames == {"dir"}
Operations == {"query", "mutation", "subscription"}

NoErr == "nil"
MalformedDefinitionError == "MalformedDefinitionError"
RegistryError == "RegistryError"
UnresolvedReferenceError == "UnresolvedReferenceError"
UnknownDirectiveError == "UnknownDirectiveError"
SchemaConstructionError == "SchemaConstructionError"
RecursionOverflow == "RecursionOverflow"

\* a nil *graphql.Object
Nil == [name |-> "nil", id |-> 0]

\* graphql.Schema{}
ZeroSchema == [Query |-> Nil, Mutation |-> Nil, Subscription |-> Nil,
               Types |-> {}, Directives |-> {}, built |-> FALSE]

SeqsUpTo(S, n) == UNION {[1..k -> S] : k \in 0..n}

----------------------------------------------------------------------------
(* Documents                                                               *)

ObjectDecl(n, refs) == [kind |-> "Object", name |-> n, refs |-> refs, ops |-> <<>>]
DirectiveDecl(n) == [kind |-> "Directive", name |-> n, refs |-> <<>>, ops |-> <<>>]
SchemaDecl(ops) == [kind |-> "Schema", name |-> "schema", refs |-> <<>>, ops |-> ops]

OperationTypeDefs == [Operation : Operations, Type : RefNames]

\* the operation types of a schema definition: each operation at most once,
\* in any order
OperationTypeLists ==
    {s \in SeqsUpTo(OperationTypeDefs, Cardinality(Operations)) :
        \A i, j \in 1..Len(s) : i # j => s[i].Operation # s[j].Operation}

\* an object type has at most one field of object type; Mutation is a leaf
TypeDecls ==
    {ObjectDecl(n, refs) : n \in RefNames, refs \in SeqsUpTo(RefNames, 1)}
        \cup {ObjectDecl(DefaultRootMutationName, <<>>)}
        \cup {DirectiveDecl(n) : n \in DirectiveNames}

SchemaDecls == {SchemaDecl(ops) : ops \in OperationTypeLists}

\* the type declarations in document order, with an optional schema
\* definition written before or after them
Documents ==
    LET T == SeqsUpTo(TypeDecls, MaxTypeDecls)
        S == {<<d>> : d \in SchemaDecls}
    IN  T \cup {s \o t : s \in S, t \in T} \cup {t \o s : s \in S, t \in T}

HasSchemaDefinition(doc) == \E i \in 1..Len(doc) : doc[i].kind = "Schema"

Declared(doc, n) == \E i \in 1..Len(doc) : doc[i].kind = "Object" /\ doc[i].name = n

\* the declaration of object type n (the first one when n is redeclared)
DeclarationOf(doc, n) ==
    LET I == {i \in 1..Len(doc) : doc[i].kind = "Object" /\ doc[i].name = n}
    IN  doc[CHOOSE i \in I : \A j \in I : i <= j]

RECURSIVE SelectKind(_, _)
SelectKind(doc, schemaKind) ==
    IF doc = <<>> THEN <<>>
    ELSE IF (Head(doc).kind = "Schema") = schemaKind
         THEN <<Head(doc)>> \o SelectKind(Tail(doc), schemaKind)
         ELSE SelectKind(Tail(doc), schemaKind)

\* specification 4.5, steps 3 and 4: every declaration is resolved first,
\* then the explicit schema definition is built
ResolutionOrder(doc) == SelectKind(doc, FALSE) \o SelectKind(doc, TRUE)

----------------------------------------------------------------------------
(* Type registry: accessor and construction (specification 4.3)            *)

\* the registry's maps and the bookkeeping of the accessor:
\*   types       name -> identity of the constructed type (0: not bound)
\*   directives  names of the constructed directives
\*   building    names marked "under construction"
\*   built       name -> number of constructions
\*   thunks      names a thunk was returned for
\*   nextId      identity of the next constructed type
\*   overflow    the recursion did not end within MaxDepth
EmptyRegistry ==
    [types |-> [n \in Names |-> 0], directives |-> {}, building |-> {},
     built |-> [n \in Names |-> 0], thunks |-> {}, nextId |-> 1,
     overflow |-> FALSE]

MaxDepth == Cardinality(Names) + 1

Object(r, n) == [name |-> n, id |-> r.types[n]]

\* mutant: the accessor never finds a bound name and constructs again
CachedNever(r, n) == FALSE

\* step 1: the name is already bound
Cached(r, n) == r.types[n] # 0

\* mutant: a reentrant request is not detected
ReentrantNever(r, n) == FALSE

\* step 3: a reentrant request for a name under construction
Reentrant(r, n) == n \in r.building

\* step 2: mark the name as under construction
MarkUnderConstruction(r, n) == [r EXCEPT !.building = @ \cup {n}]

\* step 6: store the completed type and clear the marker
Store(r, n) ==
    [r EXCEPT !.types[n] = r.nextId,
              !.nextId = @ + 1,
              !.built[n] = @ + 1,
              !.building = @ \ {n}]

RECURSIVE GetType(_, _, _, _)
RECURSIVE ResolveRefs(_, _, _, _)

\* step 4: every field type reference goes through the accessor again
ResolveRefs(doc, r, refs, fuel) ==
    IF refs = <<>> THEN [r |-> r, err |-> NoErr]
    ELSE LET g == GetType(doc, r, Head(refs), fuel)
         IN  IF g.err # NoErr THEN [r |-> g.r, err |-> g.err]
             ELSE ResolveRefs(doc, g.r, Tail(refs), fuel)

GetType(doc, r, n, fuel) ==
    IF Cached(r, n)
    THEN [r |-> r, obj |-> Object(r, n), err |-> NoErr, thunk |-> FALSE]
    ELSE IF Reentrant(r, n)
    THEN [r |-> [r EXCEPT !.thunks = @ \cup {n}], obj |-> Nil, err |-> NoErr,
          thunk |-> TRUE]
    ELSE IF ~Declared(doc, n)
    THEN [r |-> r, obj |-> Nil, err |-> UnresolvedReferenceError, thunk |-> FALSE]
    ELSE IF fuel = 0
    THEN [r |-> [r EXCEPT !.overflow = TRUE], obj |-> Nil,
          err |-> RecursionOverflow, thunk |-> FALSE]
    ELSE LET f == ResolveRefs(doc, MarkUnderConstruction(r, n),
                              DeclarationOf(doc, n).refs, fuel - 1)
         IN  IF f.err # NoErr
             THEN [r |-> f.r, obj |-> Nil, err |-> f.err, thunk |-> FALSE]
             ELSE LET s == Store(f.r, n)
                  IN  [r |-> s, obj |-> Object(s, n), err |-> NoErr, thunk |-> FALSE]

\* registry.getObject(name)
GetObject(doc, r, n) == GetType(doc, r, n, MaxDepth)

\* registry.typeArray() and registry.directiveArray()
TypeArray(r) == {n \in Names : r.types[n] # 0}
DirectiveArray(r) == r.directives

\* specification 4.2: declaration name -> the names it references
IdentifyDependencies(doc) ==
    [n \in Names |->
        IF Declared(doc, n)
        THEN {DeclarationOf(doc, n).refs[i] : i \in 1..Len(DeclarationOf(doc, n).refs)}
        ELSE {}]

----------------------------------------------------------------------------
(* graphql.SchemaConfig and graphql.NewSchema                              *)

SchemaConfig(types, dirs) ==
    [Query |-> Nil, Mutation |-> Nil, Subscription |-> Nil,
     Types |-> types, Directives |-> dirs]

\* the outcome ok of the engine's validation is an input of the step
NewSchema(config, ok) ==
    IF ok
    THEN [schema |-> [Query |-> config.Query, Mutation |-> config.Mutation,
                      Subscription |-> config.Subscription,
                      Types |-> config.Types, Directives |-> config.Directives,
                      built |-> TRUE],
          err |-> NoErr]
    ELSE [schema |-> ZeroSchema, err |-> SchemaConstructionError]

\* one call of graphql.NewSchema as the history records it: the config
\* handed over and the registry contents at that moment
Handed(config, r, ok, path) ==
    [config |-> config, types |-> TypeArray(r), directives |-> DirectiveArray(r),
     ok |-> ok, path |-> path]

----------------------------------------------------------------------------
(* registry.buildSchemaFromAST                                             *)

\* mutant: the query case assigns the Mutation field
SetOperationMisassigned(config, operation, object) ==
    CASE operation = "query" -> [config EXCEPT !.Mutation = object]
      [] operation = "mutation" -> [config EXCEPT !.Mutation = object]
      [] operation = "subscription" -> [config EXCEPT !.Subscription = object]

SetOperation(config, operation, object) ==
    CASE operation = "query" -> [config EXCEPT !.Query = object]
      [] operation = "mutation" -> [config EXCEPT !.Mutation = object]
      [] operation = "subscription" -> [config EXCEPT !.Subscription = object]

RECURSIVE AddOperations(_, _, _, _, _)
AddOperations(doc, r, ops, config, evs) ==
    IF ops = <<>>
    THEN [err |-> NoErr, r |-> r, config |-> config, log |-> evs]
    ELSE LET op == Head(ops)
             g == GetObject(doc, r, op.Type)
             e == Append(evs, <<"getObject", op.Type>>)
         IN  IF g.err = NoErr
             THEN AddOperations(doc, g.r, Tail(ops),
                                SetOperation(config, op.Operation, g.obj), e)
             ELSE [err |-> g.err, r |-> g.r, config |-> config, log |-> e]

\* c.applyDirectives on the schema node; dirOk is the outcome of the
\* registered directive behaviours
ApplyDirectives(dirOk) == IF dirOk THEN NoErr ELSE UnknownDirectiveError

\* mutant: c.schema is assigned before the error of NewSchema is checked
SchemaFieldAssignedFirst(sch, ns) == <<ns.schema>>

\* lines 137-142: c.schema is assigned only when NewSchema returned no error
SchemaFieldAfter(sch, ns) == IF ns.err # NoErr THEN sch ELSE <<ns.schema>>

\* the result: the error returned, the registry and its schema field
\* afterwards, and the calls made (log, handed)
BuildSchemaFromAST(definition, doc, r, sch, dirOk, nsOk) ==
    LET schemaConfig == SchemaConfig(TypeArray(r), DirectiveArray(r))
        a == AddOperations(doc, r, definition.ops, schemaConfig, <<>>)
        d == ApplyDirectives(dirOk)
        ns == NewSchema(a.config, nsOk)
    IN  IF a.err # NoErr
        THEN [err |-> a.err, r |-> a.r, schema |-> sch, log |-> a.log,
              handed |-> <<>>, assigned |-> 0]
        ELSE IF d # NoErr
        THEN [err |-> d, r |-> a.r, schema |-> sch,
              log |-> Append(a.log, <<"applyDirectives", "schema">>),
              handed |-> <<>>, assigned |-> 0]
        ELSE IF ns.err # NoErr
        THEN [err |-> ns.err, r |-> a.r, schema |-> SchemaFieldAfter(sch, ns),
              log |-> a.log \o <<(<<"applyDirectives", "schema">>),
                                 (<<"NewSchema", "ast">>)>>,
              handed |-> <<Handed(a.config, a.r, FALSE, "ast")>>, assigned |-> 0]
        ELSE [err |-> NoErr, r |-> a.r, schema |-> SchemaFieldAfter(sch, ns),
              log |-> a.log \o <<(<<"applyDirectives", "schema">>),
                                 (<<"NewSchema", "ast">>),
                                 (<<"setSchema", "ast">>)>>,
              handed |-> <<Handed(a.config, a.r, TRUE, "ast")>>, assigned |-> 1]

----------------------------------------------------------------------------
(* ExecutableSchema.Make                                                   *)

VARIABLES
    document,       \* the merged Document (input)
    pc,             \* the statement of Make that runs next
    idx,            \* resolveDefinitions: position in the resolution order
    registry,       \* the registry's maps (see EmptyRegistry)
    dependencyMap,  \* registry.dependencyMap: <<>> while unset
    schema,         \* registry.schema: <<>> while nil
    query,          \* Make's locals
    mutation,
    subscription,
    ret,            \* what Make returned (when pc = "done")
    log,            \* history: the calls made, in order
    handed,         \* history: the calls of graphql.NewSchema
    assignments,    \* history: number of assignments to registry.schema
    dumped,         \* history: the DependencyMap was printed
    failed          \* history: the steps that failed

vars == <<document, pc, idx, registry, dependencyMap, schema, query, mutation,
          subscription, ret, log, handed, assignments, dumped, failed>>

locals == <<query, mutation, subscription>>

Init ==
    /\ document \in Documents
    /\ pc = "ConcatenateTypeDefs"
    /\ idx = 1
    /\ registry = EmptyRegistry
    /\ dependencyMap = <<>>
    /\ schema = <<>>
    /\ query = Nil
    /\ mutation = Nil
    /\ subscription = Nil
    /\ ret = [schema |-> ZeroSchema, err |-> NoErr]
    /\ log = <<>>
    /\ handed = <<>>
    /\ assignments = 0
    /\ dumped = FALSE
    /\ failed = {}

\* return graphql.Schema{}, err
ReturnError(err) == [schema |-> ZeroSchema, err |-> err]

\* lines 42-45
ConcatenateTypeDefs ==
    /\ pc = "ConcatenateTypeDefs"
    /\ log' = Append(log, <<"ConcatenateTypeDefs", "">>)
    /\ \E ok \in BOOLEAN :
          IF ok
          THEN /\ pc' = "newRegistry"
               /\ UNCHANGED <<ret, failed>>
          ELSE /\ pc' = "done"
               /\ ret' = ReturnError(MalformedDefinitionError)
               /\ failed' = failed \cup {"merge"}
    /\ UNCHANGED <<document, idx, registry, dependencyMap, schema, locals,
                   handed, assignments, dumped>>

\* lines 48-51
NewRegistry ==
    /\ pc = "newRegistry"
    /\ log' = Append(log, <<"newRegistry", "">>)
    /\ \E ok \in BOOLEAN :
          IF ok
          THEN /\ pc' = "IdentifyDependencies"
               /\ UNCHANGED <<ret, failed>>
          ELSE /\ pc' = "done"
               /\ ret' = ReturnError(RegistryError)
               /\ failed' = failed \cup {"registry"}
    /\ UNCHANGED <<document, idx, registry, dependencyMap, schema, locals,
                   handed, assignments, dumped>>

\* line 53
SetDependencyMap ==
    /\ pc = "IdentifyDependencies"
    /\ dependencyMap' = <<IdentifyDependencies(document)>>
    /\ log' = Append(log, <<"IdentifyDependencies", "">>)
    /\ pc' = "resolveDefinitions"
    /\ UNCHANGED <<document, idx, registry, schema, locals, ret, handed,
                   assignments, dumped, failed>>

\* mutant: the error of resolveDefinitions is dropped and Make goes on
ResolveFailureIgnored(err, steps) ==
    /\ pc' = "checkSchema"
    /\ ret' = ret
    /\ failed' = failed \cup {"resolve"} \cup steps

\* lines 56-58: resolveDefinitions returned an error
ResolveFailed(err, steps) ==
    /\ pc' = "done"
    /\ ret' = ReturnError(err)
    /\ failed' = failed \cup {"resolve"} \cup steps

Definition == ResolutionOrder(document)[idx]

\* resolveDefinitions, an object type declaration
ResolveObject ==
    /\ pc = "resolveDefinitions"
    /\ idx <= Len(document)
    /\ Definition.kind = "Object"
    /\ LET g == GetObject(document, registry, Definition.name)
       IN  /\ registry' = g.r
           /\ log' = Append(log, <<"resolve", Definition.name>>)
           /\ IF g.err = NoErr
              THEN /\ idx' = idx + 1
                   /\ UNCHANGED <<pc, ret, failed>>
              ELSE /\ ResolveFailed(g.err, {})
                   /\ UNCHANGED idx
    /\ UNCHANGED <<document, dependencyMap, schema, locals, handed,
                   assignments, dumped>>

\* resolveDefinitions, a directive definition
ResolveDirective ==
    /\ pc = "resolveDefinitions"
    /\ idx <= Len(document)
    /\ Definition.kind = "Directive"
    /\ registry' = [registry EXCEPT !.directives = @ \cup {Definition.name}]
    /\ log' = Append(log, <<"resolve", Definition.name>>)
    /\ idx' = idx + 1
    /\ UNCHANGED <<document, pc, dependencyMap, schema, locals, ret, handed,
                   assignments, dumped, failed>>

\* resolveDefinitions, the schema definition: buildSchemaFromAST
ResolveSchemaDefinition ==
    /\ pc = "resolveDefinitions"
    /\ idx <= Len(document)
    /\ Definition.kind = "Schema"
    /\ \E dirOk, nsOk \in BOOLEAN :
          LET b == BuildSchemaFromAST(Definition, document, registry, schema,
                                      dirOk, nsOk)
          IN  /\ registry' = b.r
              /\ schema' = b.schema
              /\ log' = Append(log, <<"resolve", "schema">>) \o b.log
              /\ handed' = handed \o b.handed
              /\ assignments' = assignments + b.assigned
              /\ IF b.err = NoErr
                 THEN /\ idx' = idx + 1
                      /\ UNCHANGED <<pc, ret, failed>>
                 ELSE /\ ResolveFailed(b.err, IF b.handed # <<>>
                                                   THEN {"NewSchema"} ELSE {})
                      /\ UNCHANGED idx
    /\ UNCHANGED <<document, dependencyMap, locals, dumped>>

\* resolveDefinitions returns nil
ResolveDefinitionsDone ==
    /\ pc = "resolveDefinitions"
    /\ idx > Len(document)
    /\ pc' = "checkSchema"
    /\ UNCHANGED <<document, idx, registry, dependencyMap, schema, locals, ret,
                   log, handed, assignments, dumped, failed>>

\* mutant: the schema created by definition is not noticed
SchemaNeverCreatedByDefinition(sch) == FALSE

\* line 61: registry.schema != nil
SchemaCreatedByDefinition(sch) == sch # <<>>

\* lines 61-63
ReturnDefinedSchema ==
    /\ pc = "checkSchema"
    /\ SchemaCreatedByDefinition(schema)
    /\ ret' = [schema |-> IF schema = <<>> THEN ZeroSchema ELSE schema[1],
               err |-> NoErr]
    /\ pc' = "done"
    /\ UNCHANGED <<document, idx, registry, dependencyMap, schema, locals, log,
                   handed, assignments, dumped, failed>>

\* mutant: the error of every root lookup is returned
RootAlwaysRequired(name) == TRUE

\* lines 66-72: only the error of the Query lookup is checked
RootRequired(name) == name = DefaultRootQueryName

\* lines 66-69
GetQuery ==
    /\ pc = "checkSchema"
    /\ ~SchemaCreatedByDefinition(schema)
    /\ LET g == GetObject(document, registry, DefaultRootQueryName)
       IN  /\ registry' = g.r
           /\ query' = g.obj
           /\ log' = Append(log, <<"getRoot", DefaultRootQueryName>>)
           /\ IF g.err = NoErr \/ ~RootRequired(DefaultRootQueryName)
              THEN /\ pc' = "getMutation"
                   /\ UNCHANGED <<ret, failed>>
              ELSE /\ pc' = "done"
                   /\ ret' = ReturnError(g.err)
                   /\ failed' = failed \cup {"query"}
    /\ UNCHANGED <<document, idx, dependencyMap, schema, mutation, subscription,
                   handed, assignments, dumped>>

\* line 71: the error is dropped
GetMutation ==
    /\ pc = "getMutation"
    /\ LET g == GetObject(document, registry, DefaultRootMutationName)
       IN  /\ registry' = g.r
           /\ mutation' = g.obj
           /\ failed' = IF g.err = NoErr THEN failed ELSE failed \cup {"mutation"}
           /\ IF g.err = NoErr \/ ~RootRequired(DefaultRootMutationName)
              THEN /\ pc' = "getSubscription"
                   /\ UNCHANGED ret
              ELSE /\ pc' = "done"
                   /\ ret' = ReturnError(g.err)
    /\ log' = Append(log, <<"getRoot", DefaultRootMutationName>>)
    /\ UNCHANGED <<document, idx, dependencyMap, schema, query, subscription,
                   handed, assignments, dumped>>

\* line 72: the error is dropped
GetSubscription ==
    /\ pc = "getSubscription"
    /\ LET g == GetObject(document, registry, DefaultRootSubscriptionName)
       IN  /\ registry' = g.r
           /\ subscription' = g.obj
           /\ failed' = IF g.err = NoErr THEN failed
                         ELSE failed \cup {"subscription"}
           /\ IF g.err = NoErr \/ ~RootRequired(DefaultRootSubscriptionName)
              THEN /\ pc' = "NewSchema"
                   /\ UNCHANGED ret
              ELSE /\ pc' = "done"
                   /\ ret' = ReturnError(g.err)
    /\ log' = Append(log, <<"getRoot", DefaultRootSubscriptionName>>)
    /\ UNCHANGED <<document, idx, dependencyMap, schema, query, mutation,
                   handed, assignments, dumped>>

\* mutant: only the root types are handed over
DefaultSchemaConfigRootsOnly(r, q, m, s) ==
    [Query |-> q, Mutation |-> m, Subscription |-> s,
     Types |-> {o.name : o \in {q, m, s} \ {Nil}}, Directives |-> DirectiveArray(r)]

\* lines 75-82
DefaultSchemaConfig(r, q, m, s) ==
    [Query |-> q, Mutation |-> m, Subscription |-> s,
     Types |-> TypeArray(r), Directives |-> DirectiveArray(r)]

\* lines 85-88: the dependency map is printed when err != nil
DumpDependencyMap(err) == err # NoErr

\* line 91: return schema, nil
ReturnDefaultSchema(ns) == [schema |-> ns.schema, err |-> NoErr]

\* lines 75-91
BuildDefaultSchema ==
    /\ pc = "NewSchema"
    /\ \E ok \in BOOLEAN :
          LET schemaConfig == DefaultSchemaConfig(registry, query, mutation,
                                                  subscription)
              ns == NewSchema(schemaConfig, ok)
          IN  /\ handed' = Append(handed, Handed(schemaConfig, registry, ok, "default"))
              /\ dumped' = (dumped \/ DumpDependencyMap(ns.err))
              /\ log' = log \o <<(<<"NewSchema", "default">>)>>
                         \o (IF DumpDependencyMap(ns.err)
                             THEN <<(<<"dump", "dependencyMap">>)>> ELSE <<>>)
              /\ failed' = IF ok THEN failed ELSE failed \cup {"NewSchema"}
              /\ ret' = ReturnDefaultSchema(ns)
    /\ pc' = "done"
    /\ UNCHANGED <<document, idx, registry, dependencyMap, schema, locals,
                   assignments>>

Next ==
    \/ ConcatenateTypeDefs
    \/ NewRegistry
    \/ SetDependencyMap
    \/ ResolveObject
    \/ ResolveDirective
    \/ ResolveSchemaDefinition
    \/ ResolveDefinitionsDone
    \/ ReturnDefinedSchema
    \/ GetQuery
    \/ GetMutation
    \/ GetSubscription
    \/ BuildDefaultSchema

Spec == Init /\ [][Next]_vars

----------------------------------------------------------------------------
(* Properties                                                              *)

Returned == pc = "done"

\* the query roots named by the explicit schema definition
QueryRootsOf(definition) ==
    {definition.ops[k].Type :
        k \in {l \in 1..Len(definition.ops) : definition.ops[l].Operation = "query"}}

ExplicitQueryRoots(doc) ==
    UNION {QueryRootsOf(doc[i]) : i \in {j \in 1..Len(doc) : doc[j].kind = "Schema"}}

ConstructionSteps == {"merge", "registry", "resolve", "query", "NewSchema"}

\* C1: whenever a construction step of Make failed (merge, registry
\* creation, definition resolution, Query root lookup or the final
\* graphql.NewSchema call), Make returns a non-nil error.
C1_FailedStepReturnsError ==
    (Returned /\ failed \cap ConstructionSteps # {}) => ret.err # NoErr

\* C2: when the Document has an explicit schema definition naming query
\* root T, the schema Make returns has T as its query root, also when a
\* type named Query is declared, and Make never looks up the conventional
\* root names.
C2_ExplicitSchemaWins ==
    HasSchemaDefinition(document) =>
        /\ pc \notin {"getMutation", "getSubscription", "NewSchema"}
        /\ \A i \in 1..Len(log) : log[i][1] # "getRoot"
        /\ locals = <<Nil, Nil, Nil>>
        /\ (Returned /\ ret.err = NoErr) =>
              /\ ret.schema.built
              /\ \A t \in ExplicitQueryRoots(document) :
                    ret.schema.Query = Object(registry, t)

C2_Witness ==
    /\ Returned
    /\ ret.err = NoErr
    /\ ExplicitQueryRoots(document) = {"Foo"}
    /\ Declared(document, DefaultRootQueryName)
    /\ ret.schema.Query.name = "Foo"

\* C3: without an explicit schema definition the Query root is required
\* and Mutation/Subscription are optional: a failed Query lookup makes Make
\* return that error without building a schema; a failed Mutation or
\* Subscription lookup is ignored, leaves that root nil, and the schema is
\* still assembled.
C3_QueryRequiredOthersOptional ==
    /\ "query" \in failed =>
          /\ Returned
          /\ ret = ReturnError(UnresolvedReferenceError)
          /\ handed = <<>>
    /\ (~HasSchemaDefinition(document) /\ Returned
            /\ failed \cap {"merge", "registry", "resolve"} = {}
            /\ ~Declared(document, DefaultRootQueryName)) => "query" \in failed
    /\ "mutation" \in failed =>
          /\ mutation = Nil
          /\ pc \in {"getSubscription", "NewSchema", "done"}
          /\ Returned => (Len(handed) = 1 /\ handed[1].config.Mutation = Nil)
    /\ "subscription" \in failed =>
          /\ subscription = Nil
          /\ pc \in {"NewSchema", "done"}
          /\ Returned => (Len(handed) = 1 /\ handed[1].config.Subscription = Nil)
    /\ (pc \in {"getSubscription", "NewSchema"}
            /\ ~Declared(document, DefaultRootMutationName)) => "mutation" \in failed

C3_Witness ==
    /\ Returned
    /\ "mutation" \in failed
    /\ ret.schema.built
    /\ ret.schema.Query.name = DefaultRootQueryName
    /\ ret.schema.Mutation = Nil

\* C4: in both paths, every type and directive bound in the Registry when
\* the schema is assembled is in the Types/Directives handed to
\* graphql.NewSchema, reachable from a root or not.
C4_FullRegistryHanded ==
    \A i \in 1..Len(handed) :
        /\ handed[i].types \subseteq handed[i].config.Types
        /\ handed[i].directives \subseteq handed[i].config.Directives

C4_Witness ==
    \E i \in 1..Len(handed) :
        /\ handed[i].path = "ast"
        /\ \E n \in handed[i].config.Types :
              n \notin {handed[i].config.Query.name, handed[i].config.Mutation.name,
                        handed[i].config.Subscription.name}

RootsAreCached ==
    \A o \in {query, mutation, subscription} :
        o # Nil => o = Object(registry, o.name)

\* C5: each declaration name is constructed at most once, a bound name is
\* never rebound, and an accessor call for a bound name returns the cached
\* instance.
C5_IdempotentMonotonic ==
    /\ [](\A n \in Names : registry.built[n] <= 1)
    /\ [](\A n \in Names : registry.built[n] = 1 <=> registry.types[n] # 0)
    /\ []RootsAreCached
    /\ [][\A n \in Names :
            registry.types[n] # 0 => registry'.types[n] = registry.types[n]]_vars

C5_Witness ==
    /\ pc = "getMutation"
    /\ query # Nil
    /\ registry.built[DefaultRootQueryName] = 1
    /\ \E i \in 1..Len(log) : log[i] = <<"resolve", DefaultRootQueryName>>

Refs(doc, n) ==
    {DeclarationOf(doc, n).refs[i] : i \in 1..Len(DeclarationOf(doc, n).refs)}

\* two declared object types, each with a field of the other's type
CyclicPair(doc, a, b) ==
    /\ a # b
    /\ Declared(doc, a) /\ Declared(doc, b)
    /\ b \in Refs(doc, a) /\ a \in Refs(doc, b)

SelfReference(doc, n) == Declared(doc, n) /\ n \in Refs(doc, n)

\* C6: resolution of types that reference each other (or themselves)
\* terminates: the reentrant request is answered by a thunk instead of a
\* recursion, the under-construction marker is cleared when a type is
\* stored, and both types are in the final schema's type set.
C6_CycleSafety ==
    /\ ~registry.overflow
    /\ \A n \in Names : registry.types[n] # 0 => n \notin registry.building
    /\ "resolve" \notin failed => registry.building = {}
    /\ \A n \in Names :
          (SelfReference(document, n) /\ registry.types[n] # 0)
              => n \in registry.thunks
    /\ \A a, b \in Names :
          (CyclicPair(document, a, b) /\ registry.types[a] # 0)
              => /\ registry.types[b] # 0
                 /\ registry.thunks \cap {a, b} # {}
                 /\ \A i \in 1..Len(handed) : {a, b} \subseteq handed[i].config.Types
                 /\ (Returned /\ ret.schema.built) => {a, b} \subseteq ret.schema.Types

C6_Witness ==
    /\ Returned
    /\ ret.schema.built
    /\ CyclicPair(document, DefaultRootQueryName, "Foo")
    /\ registry.thunks # {}
    /\ registry.building = {}
    /\ {DefaultRootQueryName, "Foo"} \subseteq ret.schema.Types

C8_DumpIffNewSchemaFails ==
    Returned => (dumped <=> \E i \in 1..Len(handed) : ~handed[i].ok)

Stage(ev) ==
    CASE ev[1] = "ConcatenateTypeDefs" -> 1
      [] ev[1] = "newRegistry" -> 2
      [] ev[1] = "IdentifyDependencies" -> 3
      [] ev[1] \in {"resolve", "getObject", "applyDirectives", "setSchema"} -> 4
      [] ev = <<"NewSchema", "ast">> -> 4
      [] OTHER -> 5

\* C9: Make runs merge, registry creation, dependency-map computation,
\* resolveDefinitions and schema assembly in this order; the dependency
\* map is set before any declaration is resolved; when merge, registry
\* creation or resolveDefinitions fails no later stage runs and Make
\* returns the zero-value schema with that stage's error.
C9_StagesInOrder ==
    /\ \A i, j \in 1..Len(log) : i < j =>
          /\ Stage(log[i]) <= Stage(log[j])
          /\ Stage(log[i]) < 4 => Stage(log[i]) < Stage(log[j])
    /\ log # <<>> => Stage(log[1]) = 1
    /\ \A i \in 1..Len(log) : i <= 3 => Stage(log[i]) = i
    /\ dependencyMap = <<>> =>
          /\ registry = EmptyRegistry
          /\ schema = <<>>
          /\ \A i \in 1..Len(log) : Stage(log[i]) < 3
    /\ "merge" \in failed =>
          /\ Returned
          /\ ret = ReturnError(MalformedDefinitionError)
          /\ Len(log) = 1
    /\ "registry" \in failed =>
          /\ Returned
          /\ ret = ReturnError(RegistryError)
          /\ Len(log) = 2
    /\ "resolve" \in failed =>
          /\ Returned
          /\ ret.schema = ZeroSchema
          /\ ret.err \in {UnresolvedReferenceError, UnknownDirectiveError,
                           SchemaConstructionError}
          /\ \A i \in 1..Len(log) : Stage(log[i]) <= 4
          /\ locals = <<Nil, Nil, Nil>>

C9_Witness ==
    /\ Returned
    /\ "resolve" \in failed
    /\ registry.types # EmptyRegistry.types
    /\ Len(log) > 4

\* the calls buildSchemaFromAST makes when every step succeeds
FullBuild(definition) ==
    [i \in 1..Len(definition.ops) |-> <<"getObject", definition.ops[i].Type>>]
        \o <<(<<"applyDirectives", "schema">>), (<<"NewSchema", "ast">>),
             (<<"setSchema", "ast">>)>>

IsPrefix(s, t) == Len(s) <= Len(t) /\ s = SubSeq(t, 1, Len(s))

\* the error of the step a build stopped at
ErrorAt(definition, n) ==
    IF n <= Len(definition.ops) THEN UnresolvedReferenceError
    ELSE IF n = Len(definition.ops) + 1 THEN UnknownDirectiveError
    ELSE SchemaConstructionError

\* C10: buildSchemaFromAST resolves the declared operation types in
\* declaration order, then applies the schema directives, then constructs
\* the schema; a failing step returns its error at once, skips the rest and
\* leaves registry.schema unchanged; the field is set only after all three
\* succeeded.
C10_BuildAllOrNothing ==
    [][(pc = "resolveDefinitions" /\ idx <= Len(document)
            /\ Definition.kind = "Schema") =>
         LET calls == SubSeq(log', Len(log) + 2, Len(log'))
             full == FullBuild(Definition)
         IN  /\ IsPrefix(calls, full)
             /\ calls # <<>> \/ Definition.ops = <<>>
             /\ IF calls = full
                THEN /\ schema' # <<>> /\ schema # schema'
                     /\ idx' = idx + 1 /\ pc' = pc
                ELSE /\ schema' = schema
                     /\ pc' = "done"
                     /\ ret' = ReturnError(ErrorAt(Definition, Len(calls)))]_vars

C10_Witness ==
    /\ Returned
    /\ "resolve" \in failed
    /\ Len(log) > 5
    /\ log[Len(log)] = <<"applyDirectives", "schema">>
    /\ log[Len(log) - 1][1] = "getObject"
    /\ schema = <<>>

====
